---- MODULE Spec2Model ----
(***************************************************************************)
(* Model of the iAvatar SadTalker API (src/main.py): the FastAPI handlers  *)
(* generate_avatar, generate_avatar_async, get_job_status, the background  *)
(* task background_generate, SadTalkerGenerator.generate_video and the     *)
(* temp/output directories they share.                                     *)
(*                                                                         *)
(* All handlers are coroutines of one event loop and none of them awaits   *)
(* anything that suspends (generate_video calls the blocking               *)
(* subprocess.run), so a handler runs without interleaving; the only       *)
(* position a handler can be observed in is "inside subprocess.run", and   *)
(* while one is there the loop runs nothing else.                          *)
(***************************************************************************)
EXTENDS Integers, Sequences, FiniteSets, TLC

VARIABLES
    is_initialized, \* SadTalkerGenerator.is_initialized
    sadtalker_exists, \* os.path.exists(SADTALKER_PATH), fixed by the deployment
    bootstrap,      \* the run of scripts/download_models.sh initialize waits for
    tempDir,        \* files in TEMP_DIR: <<job, "image">>, <<job, "audio">>
    outDir,         \* files in OUTPUT_DIR: name -> job whose process wrote the bytes
    reqs,           \* per generate request: position, response, history
    proc,           \* the external process subprocess.run is waiting on
    tasks           \* asyncio tasks created and not yet started: job -> arguments

vars == <<is_initialized, sadtalker_exists, bootstrap, tempDir, outDir, reqs,
          proc, tasks>>

\* ------------------------------------------------------------------ bounds

\* generate requests (sync and async together) in one behaviour
MaxRequests == 2

Requests == 1 .. MaxRequests

\* uuid4 tokens are unique per request: request r gets token r when the
\* handler reaches uuid.uuid4().  Token MaxRequests + 1 is never issued.
Tokens == 1 .. (MaxRequests + 1)

\* ------------------------------------------------------------ input domains

IMAGE_PREFIX == <<"i", "m", "a", "g", "e", "/">>
AUDIO_PREFIX == <<"a", "u", "d", "i", "o", "/">>

ContentTypes ==
    { <<"i", "m", "a", "g", "e", "/", "p", "n", "g">>,
      <<"a", "u", "d", "i", "o", "/", "w", "a", "v">>,
      <<"t", "e", "x", "t", "/", "p", "l", "a", "i", "n">> }

\* where writing the two uploads raises, if it does
SaveFaults == {"none", "image", "audio"}

\* what "import torch; torch.cuda.is_available()" does
Probes == {"cuda_available", "cuda_unavailable", "import_error"}

\* what the external inference process does once launched; whether it
\* leaves an .mp4 in --result_dir is a second, independent choice
Behaviours == {"exits_zero", "exits_nonzero", "hangs"}

\* str.startswith
StartsWith(s, prefix) ==
    /\ Len(s) >= Len(prefix)
    /\ SubSeq(s, 1, Len(prefix)) = prefix

\* ------------------------------------------------------------------- paths

ImagePath(job) == <<job, "image">>
AudioPath(job) == <<job, "audio">>
\* f"{OUTPUT_DIR}/{job_id}_result.mp4"
OutputPath(job) == <<"result", job>>
\* the .mp4 the external tool writes into --result_dir, named by the tool
RawPath(job) == <<"raw", job>>
NoPath == <<"none", 0>>

\* the uploads written before the save raises
SavedBefore(fault) ==
    CASE fault = "image" -> {"image"}
      [] fault = "audio" -> {"image", "audio"}
      [] OTHER -> {"image", "audio"}

TempPaths(job, which) == { <<job, w>> : w \in which }

\* -------------------------------------------------------------- generator

\* a probe whose failure counts as an accelerator
_has_gpu_unless_reported_absent(probe) == probe # "cuda_unavailable"

\* torch.cuda.is_available(), False when the import or the call raises
_has_gpu(probe) == probe = "cuda_available"

\* list.append takes exactly one argument: cmd.append("--enhancer", "gfpgan")
\* raises TypeError, inside generate_video's try block.
build_cmd(still, use_enhancer, probe) ==
    LET base == <<"python", "inference.py">>
        c1 == IF ~_has_gpu(probe) THEN Append(base, "--cpu") ELSE base
        c2 == IF still THEN Append(c1, "--still") ELSE c1
    IN  IF use_enhancer
        THEN [raised |-> TRUE, cmd |-> c2]
        ELSE [raised |-> FALSE, cmd |-> c2]

\* subprocess.run(cmd, ..., timeout=120) without the timeout
subprocess_run_no_timeout(behaviour) ==
    CASE behaviour = "exits_zero" -> "returncode_0"
      [] behaviour = "exits_nonzero" -> "returncode_nonzero"
      [] OTHER -> "blocked"

\* subprocess.run(cmd, ..., timeout=120): returns, or raises TimeoutExpired
subprocess_run(behaviour) ==
    CASE behaviour = "exits_zero" -> "returncode_0"
      [] behaviour = "exits_nonzero" -> "returncode_nonzero"
      [] OTHER -> "TimeoutExpired"

\* Path(dirname(output_path)).glob("*.mp4"): every file of OUTPUT_DIR
Glob(files) == DOMAIN files

\* shutil.move(src, dst)
Move(files, src, dst) ==
    [n \in (DOMAIN files \ {src}) \cup {dst} |->
        IF n = dst THEN files[src] ELSE files[n]]

\* generate_video with the return-code check after the move
generate_video_move_first(exit, files, output_path, pick) ==
    IF exit = "TimeoutExpired"
    THEN [ok |-> FALSE, detail |-> "Video generation timeout", files |-> files]
    ELSE IF Glob(files) = {}
    THEN [ok |-> FALSE,
          detail |-> "Generation failed: No output video generated",
          files |-> files]
    ELSE IF exit # "returncode_0"
    THEN [ok |-> FALSE,
          detail |-> "Generation failed: SadTalker generation failed",
          files |-> Move(files, pick, output_path)]
    ELSE [ok |-> TRUE, detail |-> "", files |-> Move(files, pick, output_path)]

\* generate_video without the check of result.returncode
generate_video_no_returncode_check(exit, files, output_path, pick) ==
    IF exit = "TimeoutExpired"
    THEN [ok |-> FALSE, detail |-> "Video generation timeout", files |-> files]
    ELSE IF Glob(files) = {}
    THEN [ok |-> FALSE,
          detail |-> "Generation failed: No output video generated",
          files |-> files]
    ELSE [ok |-> TRUE, detail |-> "", files |-> Move(files, pick, output_path)]

\* generate_video with the timeout raised inside the try block
generate_video_generic_timeout(exit, files, output_path, pick) ==
    IF exit = "TimeoutExpired"
    THEN [ok |-> FALSE,
          detail |-> "Generation failed: Video generation timeout",
          files |-> files]
    ELSE IF exit # "returncode_0"
    THEN [ok |-> FALSE,
          detail |-> "Generation failed: SadTalker generation failed",
          files |-> files]
    ELSE IF Glob(files) = {}
    THEN [ok |-> FALSE,
          detail |-> "Generation failed: No output video generated",
          files |-> files]
    ELSE [ok |-> TRUE, detail |-> "", files |-> Move(files, pick, output_path)]

\* generate_video from the return of subprocess.run on: `files` is OUTPUT_DIR
\* as the process left it, `pick` is result_files[0], in the order glob gave.
generate_video(exit, files, output_path, pick) ==
    IF exit = "TimeoutExpired"
    THEN [ok |-> FALSE, detail |-> "Video generation timeout", files |-> files]
    ELSE IF exit # "returncode_0"
    THEN [ok |-> FALSE,
          detail |-> "Generation failed: SadTalker generation failed",
          files |-> files]
    ELSE IF Glob(files) = {}
    THEN [ok |-> FALSE,
          detail |-> "Generation failed: No output video generated",
          files |-> files]
    ELSE [ok |-> TRUE, detail |-> "", files |-> Move(files, pick, output_path)]

\* a cleanup that empties TEMP_DIR
cleanup_temp_files_whole_dir(temp, file_paths) == {}

\* a cleanup that removes only the image upload
cleanup_temp_files_image_only(temp, file_paths) ==
    temp \ {p \in file_paths : p[2] = "image"}

\* cleanup_temp_files(*file_paths)
cleanup_temp_files(temp, file_paths) == temp \ file_paths

\* the except block of generate_avatar: os.remove of each path that exists
error_cleanup(files, paths) ==
    [n \in DOMAIN files \ paths |-> files[n]]

\* --------------------------------------------------------------- handlers

\* the checks of generate_avatar with the audio check left out
admission_sync_image_only(init, image_ct, audio_ct) ==
    IF ~init
    THEN [status |-> 503, detail |-> "SadTalker not initialized"]
    ELSE IF ~StartsWith(image_ct, IMAGE_PREFIX)
    THEN [status |-> 400, detail |-> "Invalid image file"]
    ELSE [status |-> 0, detail |-> ""]

\* generate_avatar before the job_id is generated.  status 0: passed.
admission_sync(init, image_ct, audio_ct) ==
    IF ~init
    THEN [status |-> 503, detail |-> "SadTalker not initialized"]
    ELSE IF ~StartsWith(image_ct, IMAGE_PREFIX)
    THEN [status |-> 400, detail |-> "Invalid image file"]
    ELSE IF ~StartsWith(audio_ct, AUDIO_PREFIX)
    THEN [status |-> 400, detail |-> "Invalid audio file"]
    ELSE [status |-> 0, detail |-> ""]

\* generate_avatar_async without the is_initialized check
admission_async_always_admits(init, image_ct, audio_ct) ==
    [status |-> 0, detail |-> ""]

\* generate_avatar_async before the job_id is generated: no content-type check
admission_async(init, image_ct, audio_ct) ==
    IF ~init
    THEN [status |-> 503, detail |-> "SadTalker not initialized"]
    ELSE [status |-> 0, detail |-> ""]

\* saving that writes the image and skips the audio
save_uploads_image_only(fault) ==
    [raised |-> fault # "none", written |-> {"image"}]

\* with open(image_path, "wb") ...; with open(audio_path, "wb") ...
save_uploads(fault) ==
    [raised |-> fault # "none", written |-> SavedBefore(fault)]

\* get_job_status answering with any .mp4 of OUTPUT_DIR
get_job_status_any_file(job_id, files) ==
    IF Glob(files) # {}
    THEN [job_id |-> job_id, status |-> "video/mp4",
          video |-> files[CHOOSE n \in Glob(files) : TRUE]]
    ELSE [job_id |-> job_id, status |-> "processing", video |-> 0]

\* get_job_status: FileResponse(output_path) if os.path.exists(output_path)
get_job_status(job_id, files) ==
    IF OutputPath(job_id) \in DOMAIN files
    THEN [job_id |-> job_id, status |-> "video/mp4",
          video |-> files[OutputPath(job_id)]]
    ELSE [job_id |-> job_id, status |-> "processing", video |-> 0]

\* ------------------------------------------------------------------ state

Idle == [req |-> 0, still |-> FALSE, use_enhancer |-> FALSE, probe |-> "none",
         cmd |-> <<>>, behaviour |-> "none"]

\* kind    "sync" | "async"             pc      position of the request
\* status  HTTP status, 0: no response  detail  error detail or JSON status
\* media   content type of the response video   job whose process wrote the body
\* ready   is_initialized when the request arrived
\* ct_ok   both upload content types have the expected prefix
\* issued  a job_id was generated       saved   uploads ever written
\* called  generate_video was called    invoked subprocess.run was called
\* gen     "ok" or the message generate_video raised
\* exit    how subprocess.run ended     wrote   the process wrote an .mp4
\* cleaned the cleanup call sites that went through the job's input paths
NoRequest ==
    [kind |-> "none", pc |-> "idle", status |-> 0, detail |-> "",
     media |-> "", video |-> 0, ready |-> FALSE, ct_ok |-> FALSE,
     issued |-> FALSE, saved |-> {}, called |-> FALSE, invoked |-> FALSE, gen |-> "none",
     exit |-> "none", wrote |-> FALSE, cleaned |-> {}]

Init ==
    /\ is_initialized = FALSE
    /\ sadtalker_exists \in BOOLEAN
    /\ bootstrap = "not_running"
    /\ tempDir = {}
    /\ outDir = << >>
    /\ reqs = [r \in Requests |-> NoRequest]
    /\ proc = Idle
    /\ tasks = << >>

\* subprocess.run never holding the event loop
LoopFree_never_blocked == TRUE

\* the event loop is not inside a blocking subprocess.run
LoopFree == proc.req = 0 /\ bootstrap = "not_running"

Arrived == {r \in Requests : reqs[r].pc # "idle"}

\* OUTPUT_DIR once the process of `job` has run
AfterProcess(files, job, writes) ==
    IF writes
    THEN [n \in DOMAIN files \cup {RawPath(job)} |->
            IF n = RawPath(job) THEN job ELSE files[n]]
    ELSE files

BothTypesOk(image_ct, audio_ct) ==
    StartsWith(image_ct, IMAGE_PREFIX) /\ StartsWith(audio_ct, AUDIO_PREFIX)

\* ---------------------------------------------------------------- actions

\* what initialize finds at scripts/download_models.sh: no script, or a
\* script with one of the behaviours of an external process
Scripts == {"no_script"} \cup Behaviours

\* initialize with a failed checkpoint download treated as fatal
initialize_result_bootstrap_fatal(init, path_exists, script) ==
    IF init THEN TRUE
    ELSE IF ~path_exists THEN FALSE
    ELSE script \in {"no_script", "exits_zero"}

\* SadTalkerGenerator.initialize with _download_checkpoints, the value it
\* leaves in is_initialized: the bootstrap's non-zero exit or timeout is
\* only a warning.
initialize_result(init, path_exists, script) ==
    IF init THEN TRUE
    ELSE IF ~path_exists THEN FALSE
    ELSE TRUE

\* initialize running the checkpoint script on every call
bootstrap_runs_every_call(init, path_exists, script) ==
    path_exists /\ script # "no_script"

\* whether this call of initialize runs scripts/download_models.sh
bootstrap_runs(init, path_exists, script) ==
    ~init /\ path_exists /\ script # "no_script"

\* initialize up to its return, or up to the blocking subprocess.run of
\* _download_checkpoints
initialize ==
    /\ LoopFree
    /\ \E script \in Scripts :
          IF bootstrap_runs(is_initialized, sadtalker_exists, script)
          THEN /\ bootstrap' = script
               /\ UNCHANGED is_initialized
          ELSE /\ is_initialized' =
                     initialize_result(is_initialized, sadtalker_exists, script)
               /\ UNCHANGED bootstrap
    /\ UNCHANGED <<sadtalker_exists, tempDir, outDir, reqs, proc, tasks>>

\* the checkpoint script has exited or its 300 s have passed: initialize
\* goes on to its end
initialize_resume ==
    /\ bootstrap # "not_running"
    /\ is_initialized' =
          initialize_result(is_initialized, sadtalker_exists, bootstrap)
    /\ bootstrap' = "not_running"
    /\ UNCHANGED <<sadtalker_exists, tempDir, outDir, reqs, proc, tasks>>

\* the try block of generate_avatar reaching both of its cleanup sites
sync_cleanup_sites_both(ok) ==
    IF ok THEN {"deferred", "except"} ELSE {"except"}

\* the cleanup site the try/except of generate_avatar reaches: add_task
\* follows a generate_video that returned, the except block anything raised
sync_cleanup_sites(ok) ==
    IF ok THEN {"deferred"} ELSE {"except"}

\* the 503/400 responses of generate_avatar
SyncRejected(r, a, ok) ==
    /\ reqs' = [reqs EXCEPT ![r] =
          [@ EXCEPT !.kind = "sync", !.pc = "rejected", !.status = a.status,
                    !.detail = a.detail, !.media = "application/json",
                    !.ct_ok = ok, !.ready = is_initialized]]
    /\ UNCHANGED <<tempDir, proc>>

\* a save that raises inside the try block: the except block removes
\* whichever of the three paths exist and raises HTTPException(500)
SyncSaveFailed(r, s, ok) ==
    /\ reqs' = [reqs EXCEPT ![r] =
          [@ EXCEPT !.kind = "sync", !.pc = "done", !.status = 500,
                    !.detail = "save failed", !.media = "application/json",
                    !.cleaned = sync_cleanup_sites(FALSE) \ {"deferred"},
                    !.ct_ok = ok, !.ready = is_initialized, !.issued = TRUE, !.saved = s.written]]
    /\ tempDir' = cleanup_temp_files(tempDir \cup TempPaths(r, s.written),
                                     {ImagePath(r), AudioPath(r)})
    /\ UNCHANGED proc

\* building the command raises TypeError -> "except Exception" of
\* generate_video -> except block of the handler
SyncBuildFailed(r, s, ok) ==
    /\ reqs' = [reqs EXCEPT ![r] =
          [@ EXCEPT !.kind = "sync", !.pc = "done", !.status = 500,
                    !.detail = "Generation failed: TypeError",
                    !.media = "application/json",
                    !.ct_ok = ok, !.ready = is_initialized, !.issued = TRUE, !.saved = s.written,
                    !.called = TRUE, !.gen = "Generation failed: TypeError",
                    !.cleaned = sync_cleanup_sites(FALSE) \ {"deferred"}]]
    /\ tempDir' = cleanup_temp_files(tempDir \cup TempPaths(r, s.written),
                                     {ImagePath(r), AudioPath(r)})
    /\ UNCHANGED proc

SyncLaunched(r, s, ok, p) ==
    /\ reqs' = [reqs EXCEPT ![r] =
          [@ EXCEPT !.kind = "sync", !.pc = "running",
                    !.ct_ok = ok, !.ready = is_initialized, !.issued = TRUE, !.saved = s.written,
                    !.called = TRUE, !.invoked = TRUE]]
    /\ tempDir' = tempDir \cup TempPaths(r, s.written)
    /\ proc' = p

\* POST /generate-avatar, up to subprocess.run or to an early response
generate_avatar ==
    /\ LoopFree
    /\ Cardinality(Arrived) < MaxRequests
    /\ LET r == Cardinality(Arrived) + 1 IN
       \E image_ct \in ContentTypes, audio_ct \in ContentTypes :
          LET a == admission_sync(is_initialized, image_ct, audio_ct)
              ok == BothTypesOk(image_ct, audio_ct)
          IN  IF a.status # 0 THEN SyncRejected(r, a, ok)
              ELSE \E fault \in SaveFaults :
                 LET s == save_uploads(fault) IN
                 IF s.raised THEN SyncSaveFailed(r, s, ok)
                 ELSE \E still \in BOOLEAN, use_enhancer \in BOOLEAN,
                         probe \in Probes :
                    LET b == build_cmd(still, use_enhancer, probe) IN
                    IF b.raised THEN SyncBuildFailed(r, s, ok)
                    ELSE \E behaviour \in Behaviours :
                       SyncLaunched(r, s, ok,
                          [req |-> r, still |-> still,
                           use_enhancer |-> use_enhancer, probe |-> probe,
                           cmd |-> b.cmd, behaviour |-> behaviour])
    /\ UNCHANGED <<is_initialized, sadtalker_exists, bootstrap, outDir, tasks>>

\* generate_avatar from the return of subprocess.run to the response
generate_avatar_resume ==
    /\ proc.req # 0
    /\ reqs[proc.req].kind = "sync"
    /\ subprocess_run(proc.behaviour) # "blocked"
    /\ \E writes \in BOOLEAN :
       LET r == proc.req
           exit == subprocess_run(proc.behaviour)
           files == AfterProcess(outDir, r, writes)
       IN  \E pick \in (IF Glob(files) = {} THEN {NoPath} ELSE Glob(files)) :
           LET g == generate_video(exit, files, OutputPath(r), pick) IN
           IF g.ok
           THEN \* add_task(cleanup_temp_files, ...); FileResponse(result_path)
                /\ outDir' = g.files
                /\ tempDir' = tempDir
                /\ reqs' = [reqs EXCEPT ![r] =
                      [@ EXCEPT !.pc = IF "deferred" \in sync_cleanup_sites(TRUE)
                                       THEN "deferred" ELSE "done",
                                !.cleaned =
                                    sync_cleanup_sites(TRUE) \ {"deferred"},
                                !.status = 200,
                                !.media = "video/mp4",
                                !.video = g.files[OutputPath(r)],
                                !.gen = "ok", !.exit = exit,
                                !.wrote = writes]]
           ELSE \* except block: remove the three paths, HTTPException(500)
                /\ outDir' = error_cleanup(g.files, {OutputPath(r)})
                /\ tempDir' = cleanup_temp_files(tempDir, {ImagePath(r), AudioPath(r)})
                /\ reqs' = [reqs EXCEPT ![r] =
                      [@ EXCEPT !.pc = "done", !.status = 500,
                                !.cleaned =
                                    sync_cleanup_sites(FALSE) \ {"deferred"},
                                !.detail = g.detail,
                                !.media = "application/json",
                                !.gen = g.detail, !.exit = exit,
                                !.wrote = writes]]
    /\ proc' = Idle
    /\ UNCHANGED <<is_initialized, sadtalker_exists, bootstrap, tasks>>

\* the BackgroundTasks of a 200 response: cleanup_temp_files(image, audio)
run_background_tasks ==
    /\ LoopFree
    /\ \E r \in Requests :
          /\ reqs[r].pc = "deferred"
          /\ tempDir' = cleanup_temp_files(tempDir, {ImagePath(r), AudioPath(r)})
          /\ reqs' = [reqs EXCEPT ![r].pc = "done",
                                  ![r].cleaned = @ \cup {"deferred"}]
    /\ UNCHANGED <<is_initialized, sadtalker_exists, bootstrap, outDir, proc,
                   tasks>>

\* POST /generate-avatar-async, whole: no try block, so a save that raises
\* leaves what was written and the framework answers 500
generate_avatar_async ==
    /\ LoopFree
    /\ Cardinality(Arrived) < MaxRequests
    /\ LET r == Cardinality(Arrived) + 1 IN
       \E image_ct \in ContentTypes, audio_ct \in ContentTypes :
          LET a == admission_async(is_initialized, image_ct, audio_ct)
              ok == BothTypesOk(image_ct, audio_ct)
          IN  IF a.status # 0
              THEN /\ reqs' = [reqs EXCEPT ![r] =
                         [@ EXCEPT !.kind = "async", !.pc = "rejected",
                                   !.status = a.status, !.detail = a.detail,
                                   !.media = "application/json", !.ct_ok = ok, !.ready = is_initialized]]
                   /\ UNCHANGED <<tempDir, tasks>>
              ELSE \E fault \in SaveFaults :
                 LET s == save_uploads(fault) IN
                 IF s.raised
                 THEN /\ reqs' = [reqs EXCEPT ![r] =
                            [@ EXCEPT !.kind = "async", !.pc = "done",
                                      !.status = 500,
                                      !.detail = "Internal Server Error",
                                      !.media = "application/json",
                                      !.ct_ok = ok, !.ready = is_initialized, !.issued = TRUE,
                                      !.saved = s.written]]
                      /\ tempDir' = tempDir \cup TempPaths(r, s.written)
                      /\ UNCHANGED tasks
                 ELSE \E still \in BOOLEAN, use_enhancer \in BOOLEAN :
                      /\ reqs' = [reqs EXCEPT ![r] =
                            [@ EXCEPT !.kind = "async", !.pc = "queued",
                                      !.status = 200, !.detail = "processing",
                                      !.media = "application/json",
                                      !.ct_ok = ok, !.ready = is_initialized, !.issued = TRUE,
                                      !.saved = s.written]]
                      /\ tempDir' = tempDir \cup TempPaths(r, s.written)
                      /\ tasks' = [j \in DOMAIN tasks \cup {r} |->
                                     IF j = r
                                     THEN [still |-> still,
                                           use_enhancer |-> use_enhancer]
                                     ELSE tasks[j]]
    /\ UNCHANGED <<is_initialized, sadtalker_exists, bootstrap, outDir, proc>>

\* background_generate, up to subprocess.run, or whole when building the
\* command raises (logged, then the finally block)
background_generate ==
    /\ LoopFree
    /\ \E r \in DOMAIN tasks, probe \in Probes :
          LET b == build_cmd(tasks[r].still, tasks[r].use_enhancer, probe) IN
          /\ tasks' = [j \in DOMAIN tasks \ {r} |-> tasks[j]]
          /\ IF b.raised
             THEN /\ reqs' = [reqs EXCEPT ![r] =
                        [@ EXCEPT !.pc = "done", !.called = TRUE,
                                  !.gen = "Generation failed: TypeError",
                                  !.cleaned = @ \cup {"finally"}]]
                  /\ tempDir' = cleanup_temp_files(tempDir,
                                    {ImagePath(r), AudioPath(r)})
                  /\ proc' = proc
             ELSE \E behaviour \in Behaviours :
                  /\ reqs' = [reqs EXCEPT ![r] =
                        [@ EXCEPT !.pc = "running", !.called = TRUE,
                                  !.invoked = TRUE]]
                  /\ tempDir' = tempDir
                  /\ proc' = [req |-> r, still |-> tasks[r].still,
                              use_enhancer |-> tasks[r].use_enhancer,
                              probe |-> probe, cmd |-> b.cmd,
                              behaviour |-> behaviour]
    /\ UNCHANGED <<is_initialized, sadtalker_exists, bootstrap, outDir>>

\* background_generate from the return of subprocess.run to its end
background_generate_resume ==
    /\ proc.req # 0
    /\ reqs[proc.req].kind = "async"
    /\ subprocess_run(proc.behaviour) # "blocked"
    /\ \E writes \in BOOLEAN :
       LET r == proc.req
           exit == subprocess_run(proc.behaviour)
           files == AfterProcess(outDir, r, writes)
       IN  \E pick \in (IF Glob(files) = {} THEN {NoPath} ELSE Glob(files)) :
           LET g == generate_video(exit, files, OutputPath(r), pick) IN
           /\ outDir' = g.files
           /\ tempDir' = cleanup_temp_files(tempDir, {ImagePath(r), AudioPath(r)})
           /\ reqs' = [reqs EXCEPT ![r] =
                 [@ EXCEPT !.pc = "done",
                           !.cleaned = @ \cup {"finally"},
                           !.gen = IF g.ok THEN "ok" ELSE g.detail,
                           !.exit = exit, !.wrote = writes]]
    /\ proc' = Idle
    /\ UNCHANGED <<is_initialized, sadtalker_exists, bootstrap, tasks>>

\* GET /job/{job_id}: reads OUTPUT_DIR and changes nothing; the response is
\* get_job_status(job_id, outDir) in the state the request is served in
poll_job ==
    /\ LoopFree
    /\ \E job_id \in Tokens :
          get_job_status(job_id, outDir).status \in {"video/mp4", "processing"}
    /\ UNCHANGED vars

Next ==
    \/ initialize
    \/ initialize_resume
    \/ generate_avatar
    \/ generate_avatar_resume
    \/ run_background_tasks
    \/ generate_avatar_async
    \/ background_generate
    \/ background_generate_resume
    \/ poll_job

Spec == Init /\ [][Next]_vars

\* subprocess.run(timeout=120) returns or raises within the timeout, and the
\* event loop runs the tasks it was given.
LiveSpec ==
    /\ Spec
    /\ WF_vars(initialize_resume)
    /\ WF_vars(generate_avatar_resume)
    /\ WF_vars(background_generate_resume)
    /\ WF_vars(run_background_tasks)
    /\ WF_vars(background_generate)

\* ----------------------------------------------------------------- claims

Issued(t) == t \in Requests /\ reqs[t].issued

Finished(r) == reqs[r].pc \in {"done", "rejected"}

NoInputsOnDisk(r) == ImagePath(r) \notin tempDir /\ AudioPath(r) \notin tempDir

Flags(cmd) == {cmd[i] : i \in 1 .. Len(cmd)}

\* C1: once a generate request is fully processed (response given, deferred
\* or background cleanup run), neither of its input temp files is on disk.
C1_NoInputsRemain ==
    \A r \in Requests : Finished(r) => NoInputsOnDisk(r)

\* C2: on an initialized service, a sync request with a wrong image or audio
\* content type gets 400, with no job, no upload written and no process run.
C2_SyncRejectsBadContentType ==
    \A r \in Requests :
        (reqs[r].kind = "sync" /\ reqs[r].ready /\ ~reqs[r].ct_ok) =>
            /\ reqs[r].status = 400
            /\ reqs[r].pc = "rejected"
            /\ ~reqs[r].issued
            /\ reqs[r].saved = {}
            /\ ~reqs[r].called
            /\ ~reqs[r].invoked
            /\ NoInputsOnDisk(r)

C2_Witness ==
    \E r \in Requests :
        /\ reqs[r].kind = "sync" /\ reqs[r].ready /\ ~reqs[r].ct_ok
        /\ reqs[r].status = 400
        /\ reqs[r].detail = "Invalid audio file"

\* C3: the async endpoint rejects a wrong image or audio content type as the
\* sync endpoint does: no upload written, no job token, no process.
C3_AsyncRejectsBadContentType ==
    \A r \in Requests :
        (reqs[r].kind = "async" /\ reqs[r].ready /\ ~reqs[r].ct_ok) =>
            /\ reqs[r].status = 400
            /\ ~reqs[r].issued
            /\ reqs[r].saved = {}
            /\ ~reqs[r].invoked

\* C4: for an async job whose process exited with status 0 after writing its
\* video, a poll after the background task finished returns video/mp4 with
\* the bytes that job's own process wrote.
C4_PollReturnsOwnVideo ==
    \A r \in Requests :
        ( /\ reqs[r].kind = "async"
          /\ reqs[r].pc = "done"
          /\ reqs[r].exit = "returncode_0"
          /\ reqs[r].wrote ) =>
            get_job_status(r, outDir) =
                [job_id |-> r, status |-> "video/mp4", video |-> r]

\* C5: a poll of a token no generate endpoint issued answers "processing",
\* in every reachable state.
C5_UnissuedTokenIsProcessing ==
    \A t \in Tokens :
        ~Issued(t) => get_job_status(t, outDir) =
                          [job_id |-> t, status |-> "processing", video |-> 0]

C5_Witness ==
    /\ ENABLED poll_job
    /\ get_job_status(MaxRequests + 1, outDir).status = "processing"
    /\ \E r \in Requests : OutputPath(r) \in DOMAIN outDir
    /\ \E r \in Requests : RawPath(r) \in DOMAIN outDir

SyncResponseShape(r) ==
    \/ /\ reqs[r].status = 200
       /\ reqs[r].media = "video/mp4"
       /\ reqs[r].video \in Requests
    \/ /\ reqs[r].status \in {500, 503}
       /\ reqs[r].media = "application/json"
       /\ reqs[r].detail # ""
       /\ reqs[r].video = 0

\* C6: every sync request with valid content types gets a response, which is
\* 200 with a video/mp4 body or an error with another status; the handler
\* is never left waiting on the external process.  A response once given
\* stays given, so "each request is eventually answered" is "again and
\* again, no request is waiting".
C6_SyncRequestAnswered ==
    /\ [](\A r \in Requests :
            (reqs[r].kind = "sync" /\ reqs[r].ct_ok /\ reqs[r].status # 0)
                => SyncResponseShape(r))
    /\ []<>(\A r \in Requests :
               (reqs[r].kind = "sync" /\ reqs[r].ct_ok) => reqs[r].status # 0)

C6_Witness ==
    /\ \E r \in Requests :
          /\ reqs[r].kind = "sync" /\ reqs[r].ct_ok
          /\ reqs[r].exit = "TimeoutExpired" /\ reqs[r].status = 500
    /\ \E r \in Requests :
          /\ reqs[r].kind = "sync" /\ reqs[r].ct_ok
          /\ reqs[r].status = 200

\* C7: a sync request whose process exceeds the timeout ends with a 500
\* that reports the timeout; nothing is at its output path and neither of
\* its input temp files is on disk.
C7_SyncTimeout ==
    \A r \in Requests :
        (reqs[r].kind = "sync" /\ reqs[r].exit = "TimeoutExpired") =>
            /\ reqs[r].status = 500
            /\ reqs[r].detail = "Video generation timeout"
            /\ reqs[r].pc = "done"
            /\ proc.req # r
            /\ OutputPath(r) \notin DOMAIN outDir
            /\ NoInputsOnDisk(r)

C7_Witness ==
    \E r \in Requests :
        /\ reqs[r].kind = "sync" /\ reqs[r].exit = "TimeoutExpired"
        /\ reqs[r].wrote
        /\ RawPath(r) \in DOMAIN outDir

\* C8: generate_video succeeds only after an exit status 0 with an .mp4 in
\* the output directory; a non-zero exit, no .mp4 and a timeout each make
\* it fail and leave nothing at the job's output path.
C8_SuccessContract ==
    [][\A r \in Requests :
         (proc.req = r /\ proc'.req # r) =>
            LET files == AfterProcess(outDir, r, reqs'[r].wrote)
                bad == \/ reqs'[r].exit # "returncode_0"
                       \/ Glob(files) = {}
            IN  /\ reqs'[r].exit \in {"returncode_0", "returncode_nonzero",
                                      "TimeoutExpired"}
                /\ (proc.behaviour = "exits_nonzero") =>
                       reqs'[r].exit = "returncode_nonzero"
                /\ (proc.behaviour = "exits_zero") =>
                       reqs'[r].exit = "returncode_0"
                /\ (reqs'[r].gen = "ok") => ~bad
                /\ bad => /\ reqs'[r].gen \notin {"ok", "none"}
                          /\ OutputPath(r) \notin DOMAIN outDir'
                          /\ outDir' = files]_vars

C8_Witness ==
    /\ \E r \in Requests : reqs[r].gen = "ok"
    /\ \E r \in Requests :
          /\ reqs[r].exit = "returncode_nonzero"
          /\ reqs[r].wrote
          /\ reqs[r].gen = "Generation failed: SadTalker generation failed"

AsyncFailed(r) ==
    /\ reqs[r].kind = "async"
    /\ reqs[r].pc = "done"
    /\ reqs[r].called
    /\ reqs[r].gen # "ok"

\* C9: a failed async job is never reported: its caller got the job token,
\* and every poll of the token answers "processing" from then on.
C9_AsyncFailureIsProcessing ==
    \A r \in Requests :
        AsyncFailed(r) =>
            /\ reqs[r].status = 200
            /\ reqs[r].detail = "processing"
            /\ get_job_status(r, outDir) =
                   [job_id |-> r, status |-> "processing", video |-> 0]

C9_Witness ==
    /\ \E r \in Requests :
          /\ AsyncFailed(r)
          /\ reqs[r].exit = "returncode_nonzero"
          /\ reqs[r].wrote
          /\ RawPath(r) \in DOMAIN outDir
          /\ ENABLED poll_job
    /\ \E r \in Requests :
          /\ AsyncFailed(r)
          /\ reqs[r].exit = "TimeoutExpired"

\* C10: whatever the still and enhancer options, generate_video invokes the
\* external executable, with --still exactly when still is set and the
\* enhancer flag exactly when use_enhancer is set.
C10_CommandForEveryOption ==
    /\ \A r \in Requests : reqs[r].called => reqs[r].invoked
    /\ (proc.req # 0) =>
          /\ ("--still" \in Flags(proc.cmd)) <=> proc.still
          /\ ("--enhancer" \in Flags(proc.cmd)) <=> proc.use_enhancer

\* C11: with the tool's directory missing initialize fails and the service
\* never becomes initialized; with it present a bootstrap that exits non-zero
\* or times out still ends in is_initialized, and initialize on an
\* initialized generator changes nothing and runs no bootstrap.
C11_StartupFatalOnlyWhenToolMissing ==
    /\ [](~sadtalker_exists => (~is_initialized /\ bootstrap = "not_running"))
    /\ [][initialize =>
            IF is_initialized
            THEN UNCHANGED vars
            ELSE /\ sadtalker_exists
                 /\ is_initialized' \/ bootstrap' # "not_running"]_vars
    /\ [][bootstrap # "not_running" =>
            (is_initialized' /\ bootstrap' = "not_running")]_vars
    /\ [](bootstrap # "not_running" => ~is_initialized)

C11_Witness ==
    /\ bootstrap \in {"exits_nonzero", "hangs"}
    /\ \E r \in Requests : ~reqs[r].ready /\ reqs[r].status = 503
    /\ ENABLED (initialize_resume /\ is_initialized')

\* the jobs whose external process is running
Running == {r \in Requests : reqs[r].pc = "running"}

\* C12 as written: nothing serializes the launches of background generation
\* tasks, so a queued task can be launched whatever is running and as many
\* processes run as there are jobs in flight.
C12_LaunchesNotSerialized ==
    (tasks # << >>) => ENABLED background_generate

\* C12, amended: the blocking subprocess.run serializes the external
\* processes: at most one runs at a time, it is the one the event loop is
\* blocked in, and while it runs no request is admitted and no queued task
\* is launched; the number of queued tasks is not limited.
C12_OneProcessAtATime ==
    /\ Cardinality(Running) <= 1
    /\ Running = {proc.req} \ {0}
    /\ (Running # {}) =>
          /\ ~ENABLED background_generate
          /\ ~ENABLED generate_avatar_async
          /\ ~ENABLED generate_avatar

C12_Witness ==
    /\ proc.req # 0
    /\ reqs[proc.req].kind = "async"
    /\ tasks # << >>

\* C13: whenever generate_video globs OUTPUT_DIR for *.mp4 after its process
\* has exited with status 0, at most one file matches, whatever jobs ran
\* before.
C13_AtMostOneMatch ==
    (proc.req # 0 /\ subprocess_run(proc.behaviour) = "returncode_0") =>
        \A writes \in BOOLEAN :
            Cardinality(Glob(AfterProcess(outDir, proc.req, writes))) <= 1

\* C14: the video in a 200 response of POST /generate-avatar was written by
\* the external process of that same request, never by another job's.
C14_SyncBodyIsOwnVideo ==
    \A r \in Requests :
        (reqs[r].kind = "sync" /\ reqs[r].status = 200) => reqs[r].video = r

\* C15: once GET /job/T answers with the video, it does so in every later
\* state, whatever other jobs do.
C15_CompletionIsStable ==
    [][\A t \in Tokens :
          (get_job_status(t, outDir).status = "video/mp4") =>
              (get_job_status(t, outDir').status = "video/mp4")]_vars

\* a validated sync request that was answered although saving an upload
\* or generate_video raised
SyncRaised(r) ==
    /\ reqs[r].kind = "sync"
    /\ reqs[r].ready /\ reqs[r].ct_ok
    /\ reqs[r].status # 0
    /\ ~reqs[r].called \/ reqs[r].gen # "ok"

\* C16: when a step of POST /generate-avatar after validation raises (a
\* save, or generation failing or timing out), the response is 500 and after
\* it none of the job's image, audio and output paths exists.
C16_SyncErrorCleansUp ==
    \A r \in Requests :
        SyncRaised(r) =>
            /\ reqs[r].status = 500
            /\ ImagePath(r) \notin tempDir
            /\ AudioPath(r) \notin tempDir
            /\ OutputPath(r) \notin DOMAIN outDir

C16_Witness ==
    \E r1 \in Requests, r2 \in Requests :
        /\ SyncRaised(r1) /\ ~reqs[r1].called
        /\ reqs[r1].saved = {"image", "audio"}
        /\ SyncRaised(r2) /\ reqs[r2].gen = "Video generation timeout"
        /\ reqs[r2].wrote

\* C17: POST /generate-avatar-async answers {job_id, "processing"} only
\* with both uploads written and the background task created, and without
\* waiting: when the handler returns the job's output file does not exist
\* and its external process has neither completed nor started.
C17_AsyncReturnsBeforeProcess ==
    [][\A r \in Requests :
          ( /\ reqs[r].status = 0
            /\ reqs'[r].kind = "async"
            /\ reqs'[r].status = 200 ) =>
              /\ reqs'[r].detail = "processing"
              /\ {ImagePath(r), AudioPath(r)} \subseteq tempDir'
              /\ r \in DOMAIN tasks'
              /\ OutputPath(r) \notin DOMAIN outDir'
              /\ ~reqs'[r].invoked
              /\ reqs'[r].exit = "none"
              /\ proc'.req # r]_vars

C17_Witness ==
    \E r \in Requests :
        /\ reqs[r].kind = "async"
        /\ reqs[r].pc = "queued"
        /\ reqs[r].status = 200
        /\ r \in DOMAIN tasks
        /\ outDir # << >>

\* C18: --cpu is on the external command line exactly when the accelerator
\* probe reports no accelerator; a probe that fails counts as no accelerator,
\* so --cpu is added and the probe never fails the request.
C18_CpuFlagFollowsProbe ==
    /\ (proc.req # 0) =>
          /\ ("--cpu" \in Flags(proc.cmd)) <=> (proc.probe # "cuda_available")
          /\ (proc.probe = "import_error") => ("--cpu" \in Flags(proc.cmd))
    /\ \A still \in BOOLEAN, probe \in Probes :
          ~build_cmd(still, FALSE, probe).raised

C18_Witness ==
    /\ proc.req # 0
    /\ proc.probe = "import_error"
    /\ "--cpu" \in Flags(proc.cmd)
    /\ reqs[proc.req].invoked

\* C19: while a job's external process is running both of its input files
\* are in TEMP_DIR: no cleanup of this or another job removes them before
\* the process has completed or timed out.
C19_InputsOutliveProcess ==
    (proc.req # 0) =>
        /\ {ImagePath(proc.req), AudioPath(proc.req)} \subseteq tempDir
        /\ ~ENABLED run_background_tasks
        /\ ~ENABLED background_generate

C19_Witness ==
    /\ proc.req # 0
    /\ {ImagePath(proc.req), AudioPath(proc.req)} \subseteq tempDir
    /\ \E r \in Requests :
          /\ r > proc.req
          /\ reqs[r].pc = "done"
          /\ reqs[r].invoked
          /\ NoInputsOnDisk(r)

\* a step in which a cleanup call site goes through the input paths of r
CleanupAttempt(r) == Next /\ reqs'[r].cleaned # reqs[r].cleaned

\* C20 as written: the cleanup call sites are not exclusive for one job: a
\* job whose input paths one site has gone through can get a second deletion
\* attempt from another site.
C20_SecondAttemptPossible ==
    \A r \in Requests :
        (reqs[r].cleaned # {}) => ENABLED CleanupAttempt(r)

\* C20, amended: for one job deletion of its inputs is attempted at no more
\* than one call site: the deferred task or the except block for a sync job,
\* the finally block for an async job; an attempt is only ever made for a job
\* no site has cleaned, so no two attempts meet on one path.
C20_OneCleanupSitePerJob ==
    /\ [](\A r \in Requests :
            /\ Cardinality(reqs[r].cleaned) <= 1
            /\ (reqs[r].kind = "sync") =>
                  reqs[r].cleaned \subseteq {"deferred", "except"}
            /\ (reqs[r].kind = "async") =>
                  reqs[r].cleaned \subseteq {"finally"}
            /\ (reqs[r].cleaned = {"deferred"}) => reqs[r].status = 200
            /\ (reqs[r].cleaned = {"except"}) => reqs[r].status = 500)
    /\ [][\A r \in Requests :
            (reqs'[r].cleaned # reqs[r].cleaned) => reqs[r].cleaned = {}]_vars

C20_Witness ==
    \E r1 \in Requests, r2 \in Requests :
        /\ reqs[r1].cleaned = {"deferred"}
        /\ reqs[r2].cleaned \in {{"except"}, {"finally"}}
        /\ reqs[r2].invoked
        /\ ~ENABLED CleanupAttempt(r1)
        /\ ~ENABLED CleanupAttempt(r2)

\* C21: a generate request that arrives while the generator is not
\* initialized is answered 503 by either endpoint with no temp file written,
\* no job and no process; no inference process runs and no background task
\* waits while is_initialized is false; is_initialized never goes back to
\* false.
C21_NothingRunsUninitialized ==
    /\ [](\A r \in Requests :
            (reqs[r].kind # "none" /\ ~reqs[r].ready) =>
                /\ reqs[r].status = 503
                /\ reqs[r].pc = "rejected"
                /\ reqs[r].saved = {}
                /\ ~reqs[r].issued
                /\ ~reqs[r].called
                /\ ~reqs[r].invoked
                /\ NoInputsOnDisk(r))
    /\ []((proc.req # 0 \/ tasks # << >>) => is_initialized)
    /\ [](~is_initialized => (tempDir = {} /\ outDir = << >>))
    /\ [][is_initialized => is_initialized']_vars

C21_Witness ==
    /\ ~is_initialized
    /\ \E r1 \in Requests, r2 \in Requests :
          /\ reqs[r1].kind = "sync" /\ reqs[r1].status = 503
          /\ reqs[r2].kind = "async" /\ reqs[r2].status = 503
    /\ tempDir = {}
    /\ proc.req = 0
    /\ ENABLED (initialize /\ is_initialized')

====
